---- MODULE Spec2Model ----
(***************************************************************************)
(* The matchmaker of a cluster of server processes (src/src/MatchMaker.ts) *)
(* as a state machine.  Every process runs the same module code over its   *)
(* own module-level state (handlers, rooms, isGracefullyShuttingDown); the *)
(* presence store (hash roomcount, plain keys, subscriptions) and the      *)
(* driver's listings are shared by the cluster.  An async function is cut  *)
(* at its awaits: one action per synchronous stretch.                      *)
(***************************************************************************)
EXTENDS Integers, FiniteSets, Sequences, TLC

Procs == {"A", "B"}
Names == {"chat", "duel"}

MaxRooms == 2
MaxCalls == 2
MaxSids == 3
MaxClients == MaxCalls
MaxRegistryOps == 1

RoomIds == 1..MaxRooms
CallIds == 1..MaxCalls
Sids == 1..MaxSids
NoRoom == 0
NoSid == 0
Sides == {"L", "R"}

VARIABLES
    handlers,       \* handlers[p]: the room names process p has a handler for
    rooms,          \* rooms[p]: the roomIds in process p's local room table
    shuttingDown,   \* isGracefullyShuttingDown of each process
    procSub,        \* procSub[p]: p is subscribed on p:<p>
    roomSubs,       \* roomSubs[p]: the roomIds whose channel $<roomId> p is subscribed on
    roomcount,      \* the presence hash "roomcount": processId -> count
    keys,           \* the presence plain keys (the counters c:<name>)
    listings,       \* the listings persisted in the driver, by roomId
    room,           \* the Room objects, by roomId
    calls,          \* the matchmaking calls made by clients
    tasks,          \* the handleCreateRoom runs made for each call (local, remote)
    nextRoom,       \* the next roomId generateId() returns
    regOps,         \* number of defineRoomType/removeRoomType calls made so far
    cleanup,        \* cleanup[p]: the cleanupStaleRooms run of process p
    shutdown,       \* shutdown[p]: the promise gracefullyShutdown returned on p
    nodes,          \* the presence set "colyseus:nodes" of formatted node addresses
    disc            \* discovery: each node's position in registerNode and
                    \* unregisterNode, the messages published on the discovery
                    \* channel and not delivered yet, and what the channel's
                    \* subscriber received last and read from the set then

vars == <<handlers, rooms, shuttingDown, procSub, roomSubs, roomcount, keys,
          listings, room, calls, tasks, nextRoom, regOps, cleanup, shutdown, nodes, disc>>

----------------------------------------------------------------------------
(* Presence: hashes and plain keys.  A missing field or key counts as 0.   *)

HGet(h, f) == IF f \in DOMAIN h THEN h[f] ELSE 0
HIncrBy(h, f, n) == [x \in DOMAIN h \cup {f} |-> IF x = f THEN HGet(h, f) + n ELSE h[x]]
HDel(h, f) == [x \in DOMAIN h \ {f} |-> h[x]]

KeyGet(ks, k) == IF k \in DOMAIN ks THEN ks[k] ELSE 0
KeyIncr(ks, k) == [x \in DOMAIN ks \cup {k} |-> IF x = k THEN KeyGet(ks, k) + 1 ELSE ks[x]]
KeyDecr(ks, k) == [x \in DOMAIN ks \cup {k} |-> IF x = k THEN KeyGet(ks, k) - 1 ELSE ks[x]]
KeyDel(ks, k) == [x \in DOMAIN ks \ {k} |-> ks[x]]

getHandlerConcurrencyKey(name) == <<"c", name>>
RoomKey(id) == <<"id", id>>

\* The room class registered for "chat" defines onCreate, the one for "duel" does not.
HasOnCreate(name) == name = "chat"

----------------------------------------------------------------------------
NoTask == [pc |-> "none", proc |-> "A", name |-> "chat", room |-> NoRoom]
NoCall == [op |-> "none", proc |-> "A", name |-> "chat", pc |-> "idle", attempts |-> 0,
           room |-> NoRoom, sid |-> NoSid, err |-> "none", k |-> 0, target |-> "A",
           seatMsg |-> "none", fallback |-> FALSE, made |-> FALSE, rejoin |-> FALSE,
           rejectionTimeout |-> 0, elapsed |-> 0, requests |-> 0,
           http |-> FALSE, method |-> "none", response |-> "none"]
NoCleanup == [pc |-> "none", name |-> "chat", todo |-> {}]
NoShutdown == [result |-> "none", pending |-> {}, again |-> FALSE]
NoRoomObj == [phase |-> "none", name |-> "chat", owner |-> "A", locked |-> FALSE,
              private |-> FALSE, seats |-> {}, disconnecting |-> FALSE]

(* Discovery: a node is a process and the address its transport listens  *)
(* on; getNodeAddress formats it as <processId>/<address>:<port>, with   *)
(* the address "::" put in brackets.                                     *)
Host(p) == IF p = "A" THEN "::" ELSE "127.0.0.1"
Port(p) == IF p = "A" THEN 2567 ELSE 2568

getNodeAddress(p) == <<p, "/", IF Host(p) = "::" THEN "[::]" ELSE Host(p), ":", Port(p)>>

NoMessage == <<"none", << >> >>

\* the discovery state when the processes of regd have registered and the
\* channel's subscriber has received what they published
Discovered(regd) ==
    [reg |-> [p \in Procs |-> IF p \in regd THEN "done" ELSE "idle"],
     unreg |-> [p \in Procs |-> "idle"],
     channel |-> << >>,
     received |-> NoMessage,
     read |-> {}]

Init ==
    /\ handlers = [p \in Procs |-> Names]
    /\ rooms = [p \in Procs |-> {}]
    /\ shuttingDown = [p \in Procs |-> FALSE]
    /\ procSub = [p \in Procs |-> TRUE]
    /\ roomSubs = [p \in Procs |-> {}]
    /\ roomcount = [p \in Procs |-> 0]
    /\ keys = << >>
    /\ listings = << >>
    /\ room = [id \in RoomIds |-> NoRoomObj]
    /\ calls = [c \in CallIds |-> NoCall]
    /\ tasks = [c \in CallIds |-> [s \in Sides |-> NoTask]]
    /\ nextRoom = 1
    /\ regOps = 0
    /\ cleanup = [p \in Procs |-> NoCleanup]
    /\ shutdown = [p \in Procs |-> NoShutdown]
    /\ nodes = {getNodeAddress(p) : p \in Procs}
    /\ disc = Discovered(Procs)

----------------------------------------------------------------------------
(* Room objects (the Room class is outside the matchmaker): a room accepts *)
(* a seat reservation when it is not locked and under capacity.            *)

RoomAccepts(r) == ~r.locked /\ Cardinality(r.seats) < MaxClients

ReserveSeat(r, sid) == IF RoomAccepts(r) THEN [r EXCEPT !.seats = @ \cup {sid}] ELSE r

ListingOf(r) == [name |-> r.name, processId |-> r.owner, locked |-> r.locked,
                 private |-> r.private]

UsedSids == {calls[c].sid : c \in CallIds} \cup UNION {room[id].seats : id \in RoomIds}

\* an id that may be held already
AnySid == CHOOSE s \in Sids : TRUE

\* generateId(): an id no one holds
FreshSid == CHOOSE s \in Sids : s \notin UsedSids

----------------------------------------------------------------------------
(* createRoomReferences / clearRoomReferences                              *)

\* a table shared by the processes
createRoomReferencesEverywhere(tbl, p, id) == [q \in Procs |-> tbl[q] \cup {id}]

\* rooms[room.roomId] = room; with init the subscription on $<roomId> follows
\* after an await (HcSubscribed)
createRoomReferences(tbl, p, id) == [tbl EXCEPT ![p] = @ \cup {id}]

\* presence.del(room.roomId)
clearRoomReferences(ks, id) == KeyDel(ks, RoomKey(id))

----------------------------------------------------------------------------
(* handleCreateRoom, run by process p for call c (side "L": on the caller's *)
(* process; side "R": on the process that received the request on p:<p>).  *)

HcTask(pc, p, name, id) == [pc |-> pc, proc |-> p, name |-> name, room |-> id]

\* Up to the first await: the handler check, the new room, its id, and either
\* the call of onCreate or (no onCreate) the entry of createRoomReferences.
\* cs is the calls function as the caller of handleCreateRoom leaves it.
HcEnter(c, side, p, name, cs) ==
    IF name \notin handlers[p]
    THEN /\ tasks' = [tasks EXCEPT ![c][side] = NoTask]
         /\ calls' = IF side = "L"
                     THEN [cs EXCEPT ![c].pc = "failed", ![c].err = "NO_HANDLER"]
                     ELSE cs
         /\ UNCHANGED <<room, rooms, nextRoom>>
    ELSE /\ nextRoom <= MaxRooms
         /\ nextRoom' = nextRoom + 1
         /\ calls' = cs
         /\ IF HasOnCreate(name)
            THEN /\ room' = [room EXCEPT ![nextRoom] =
                        [NoRoomObj EXCEPT !.phase = "init", !.name = name, !.owner = p]]
                 /\ tasks' = [tasks EXCEPT ![c][side] = HcTask("onCreate", p, name, nextRoom)]
                 /\ UNCHANGED rooms
            ELSE /\ room' = [room EXCEPT ![nextRoom] =
                        [NoRoomObj EXCEPT !.phase = "new", !.name = name, !.owner = p]]
                 /\ rooms' = createRoomReferences(rooms, p, nextRoom)
                 /\ tasks' = [tasks EXCEPT ![c][side] = HcTask("subscribing", p, name, nextRoom)]

\* a handleCreateRoom that counts the room before onCreate has succeeded
HcOnCreateDoneCounted(c, side) ==
    LET t == tasks[c][side] IN
    /\ t.pc = "onCreate"
    /\ roomcount' = HIncrBy(roomcount, t.proc, 1)
    /\ \/ /\ room' = [room EXCEPT ![t.room].phase = "new"]
          /\ rooms' = createRoomReferences(rooms, t.proc, t.room)
          /\ tasks' = [tasks EXCEPT ![c][side].pc = "subscribing"]
          /\ UNCHANGED calls
       \/ /\ room' = [room EXCEPT ![t.room].phase = "failed"]
          /\ tasks' = [tasks EXCEPT ![c][side] = NoTask]
          /\ calls' = IF side = "L"
                      THEN [calls EXCEPT ![c].pc = "failed", ![c].err = "ONCREATE"]
                      ELSE calls
          /\ UNCHANGED rooms
    /\ UNCHANGED <<handlers, shuttingDown, procSub, roomSubs, keys, listings, nextRoom, regOps, cleanup>>
    /\ UNCHANGED <<shutdown, nodes, disc>>

\* room.onCreate settles: on success the count is incremented, the listeners
\* are bound and createRoomReferences is entered; on failure MatchMakeError.
HcOnCreateDone(c, side) ==
    LET t == tasks[c][side] IN
    /\ t.pc = "onCreate"
    /\ \/ /\ roomcount' = HIncrBy(roomcount, t.proc, 1)
          /\ room' = [room EXCEPT ![t.room].phase = "new"]
          /\ rooms' = createRoomReferences(rooms, t.proc, t.room)
          /\ tasks' = [tasks EXCEPT ![c][side].pc = "subscribing"]
          /\ UNCHANGED calls
       \/ /\ room' = [room EXCEPT ![t.room].phase = "failed"]
          /\ tasks' = [tasks EXCEPT ![c][side] = NoTask]
          /\ calls' = IF side = "L"
                      THEN [calls EXCEPT ![c].pc = "failed", ![c].err = "ONCREATE"]
                      ELSE calls
          /\ UNCHANGED <<roomcount, rooms>>
    /\ UNCHANGED <<handlers, shuttingDown, procSub, roomSubs, keys, listings, nextRoom, regOps, cleanup>>
    /\ UNCHANGED <<shutdown, nodes, disc>>

\* a createRoomReferences that goes on without the subscription on $<roomId>
HcSubscribedNowhere(c, side) ==
    LET t == tasks[c][side] IN
    /\ t.pc = "subscribing"
    /\ tasks' = [tasks EXCEPT ![c][side].pc = "saving"]
    /\ UNCHANGED <<handlers, rooms, shuttingDown, procSub, roomSubs, roomcount, keys,
                   listings, room, calls, nextRoom, regOps, cleanup>>
    /\ UNCHANGED <<shutdown, nodes, disc>>

\* subscribeIPC on $<roomId> completes; listing.save() is issued.
HcSubscribed(c, side) ==
    LET t == tasks[c][side] IN
    /\ t.pc = "subscribing"
    /\ roomSubs' = [roomSubs EXCEPT ![t.proc] = @ \cup {t.room}]
    /\ tasks' = [tasks EXCEPT ![c][side].pc = "saving"]
    /\ UNCHANGED <<handlers, rooms, shuttingDown, procSub, roomcount, keys, listings,
                   room, calls, nextRoom, regOps, cleanup>>
    /\ UNCHANGED <<shutdown, nodes, disc>>

\* listing.save() completes; handleCreateRoom returns the listing.
HcSaved(c, side) ==
    LET t == tasks[c][side] IN
    /\ t.pc = "saving"
    /\ listings' = [x \in DOMAIN listings \cup {t.room} |->
                      IF x = t.room THEN ListingOf(room[t.room]) ELSE listings[x]]
    /\ room' = [room EXCEPT ![t.room].phase = IF @ = "new" THEN "live" ELSE @]
    /\ tasks' = [tasks EXCEPT ![c][side] =
                    IF side = "R" /\ calls[c].pc = "ipcCreate"
                    THEN [t EXCEPT !.pc = "done"] ELSE NoTask]
    /\ calls' = IF side = "L"
                THEN [calls EXCEPT ![c].pc = "reserve", ![c].room = t.room]
                ELSE calls
    /\ UNCHANGED <<handlers, rooms, shuttingDown, procSub, roomSubs, roomcount, keys,
                   nextRoom, regOps, cleanup>>
    /\ UNCHANGED <<shutdown, nodes, disc>>

----------------------------------------------------------------------------
(* The matchmaker's listeners on a room's events.                          *)

\* a lockRoom that also gave up the subscription on $<roomId>
lockRoomUnsubscribing(p, id) ==
    /\ keys' = clearRoomReferences(keys, id)
    /\ roomSubs' = [roomSubs EXCEPT ![p] = @ \ {id}]
    /\ UNCHANGED rooms

\* lockRoom: clearRoomReferences(room), then the handler's emit
lockRoom(p, id) ==
    /\ keys' = clearRoomReferences(keys, id)
    /\ UNCHANGED <<rooms, roomSubs>>

\* an unlockRoom that dropped the room's references
unlockRoomForgetting(p, id) ==
    /\ rooms' = [rooms EXCEPT ![p] = @ \ {id}]
    /\ UNCHANGED <<keys, roomSubs>>

\* unlockRoom: createRoomReferences(room) without init, then the handler's emit
unlockRoom(p, id) ==
    /\ rooms' = createRoomReferences(rooms, p, id)
    /\ UNCHANGED <<keys, roomSubs>>

\* disposeRoom; handlers[roomName].emit throws when the handler was removed,
\* and the statements after it are not run
disposeRoom(p, name, id) ==
    /\ roomcount' = IF ~shuttingDown[p] THEN HIncrBy(roomcount, p, -1) ELSE roomcount
    /\ listings' = [x \in DOMAIN listings \ {id} |-> listings[x]]
    /\ IF name \in handlers[p]
       THEN /\ keys' = clearRoomReferences(KeyDel(keys, getHandlerConcurrencyKey(name)), id)
            /\ roomSubs' = [roomSubs EXCEPT ![p] = @ \ {id}]
            /\ rooms' = [rooms EXCEPT ![p] = @ \ {id}]
       ELSE UNCHANGED <<keys, roomSubs, rooms>>

SetListing(ls, id, field, v) ==
    IF id \in DOMAIN ls THEN [ls EXCEPT ![id][field] = v] ELSE ls

\* The room locks itself (its listing's locked flag is persisted) and emits lock.
RoomLock(id) ==
    /\ room[id].phase = "live"
    /\ ~room[id].locked
    /\ room' = [room EXCEPT ![id].locked = TRUE]
    /\ listings' = SetListing(listings, id, "locked", TRUE)
    /\ lockRoom(room[id].owner, id)
    /\ UNCHANGED <<handlers, shuttingDown, procSub, roomcount, calls, tasks, nextRoom, regOps, cleanup>>
    /\ UNCHANGED <<shutdown, nodes, disc>>

\* The room unlocks itself and emits unlock.
RoomUnlock(id) ==
    /\ room[id].phase = "live"
    /\ room[id].locked
    /\ room' = [room EXCEPT ![id].locked = FALSE]
    /\ listings' = SetListing(listings, id, "locked", FALSE)
    /\ unlockRoom(room[id].owner, id)
    /\ UNCHANGED <<handlers, shuttingDown, procSub, roomcount, calls, tasks, nextRoom, regOps, cleanup>>
    /\ UNCHANGED <<shutdown, nodes, disc>>

\* The room is made private (its listing is updated); no event for the matchmaker.
RoomSetPrivate(id) ==
    /\ room[id].phase = "live"
    /\ ~room[id].private
    /\ room' = [room EXCEPT ![id].private = TRUE]
    /\ listings' = SetListing(listings, id, "private", TRUE)
    /\ UNCHANGED <<handlers, rooms, shuttingDown, procSub, roomSubs, roomcount, keys,
                   calls, tasks, nextRoom, regOps, cleanup>>
    /\ UNCHANGED <<shutdown, nodes, disc>>

\* The future of a room's disconnect() settles: Promise.all is fulfilled once
\* all its futures are, and is rejected by the first one that fails.
Settle(sd, p, id, ok) ==
    IF id \notin sd[p].pending THEN sd
    ELSE [sd EXCEPT ![p].pending = @ \ {id},
                    ![p].result = IF @ # "waiting" THEN @
                                  ELSE IF ~ok THEN "rejected"
                                  ELSE IF sd[p].pending = {id} THEN "resolved"
                                  ELSE @]

\* The room emits dispose (once): on its own once created, or after disconnect();
\* the future of its disconnect() is then fulfilled.
RoomDispose(id) ==
    /\ \/ room[id].phase = "live"
       \/ room[id].phase = "new" /\ room[id].disconnecting
    /\ room' = [room EXCEPT ![id].phase = "gone"]
    /\ disposeRoom(room[id].owner, room[id].name, id)
    /\ shutdown' = Settle(shutdown, room[id].owner, id, TRUE)
    /\ UNCHANGED <<handlers, shuttingDown, procSub, calls, tasks, nextRoom, regOps, cleanup, nodes, disc>>

\* The future of a room's disconnect() fails.
DisconnectFail(id) ==
    /\ id \in shutdown[room[id].owner].pending
    /\ shutdown' = Settle(shutdown, room[id].owner, id, FALSE)
    /\ UNCHANGED <<handlers, rooms, shuttingDown, procSub, roomSubs, roomcount, keys,
                   listings, room, calls, tasks, nextRoom, regOps, cleanup, nodes, disc>>

\* a gracefullyShutdown that does not look at isGracefullyShuttingDown
GracefullyShutdownAgain(p) ==
    /\ shuttingDown' = [shuttingDown EXCEPT ![p] = TRUE]
    /\ roomcount' = HDel(roomcount, p)
    /\ procSub' = [procSub EXCEPT ![p] = FALSE]
    /\ room' = [id \in RoomIds |->
                  IF id \in rooms[p] THEN [room[id] EXCEPT !.disconnecting = TRUE]
                  ELSE room[id]]
    /\ shutdown' = [shutdown EXCEPT ![p] =
          LET open == {id \in rooms[p] : room[id].phase # "gone"} IN
          [result |-> IF open = {} THEN "resolved" ELSE "waiting",
           pending |-> open, again |-> shuttingDown[p]]]
    /\ UNCHANGED <<handlers, rooms, roomSubs, keys, listings, calls, tasks, nextRoom,
                   regOps, cleanup, nodes, disc>>

\* gracefullyShutdown: a repeated call returns Promise.reject(false); the first
\* one returns Promise.all over the disconnect() of every room in the table.
GracefullyShutdown(p) ==
    /\ IF shuttingDown[p]
       THEN /\ shutdown' = [shutdown EXCEPT ![p].again = TRUE]
            /\ UNCHANGED <<shuttingDown, roomcount, procSub, room>>
       ELSE /\ shuttingDown' = [shuttingDown EXCEPT ![p] = TRUE]
            /\ roomcount' = HDel(roomcount, p)
            /\ procSub' = [procSub EXCEPT ![p] = FALSE]
            /\ room' = [id \in RoomIds |->
                          IF id \in rooms[p] THEN [room[id] EXCEPT !.disconnecting = TRUE]
                          ELSE room[id]]
            /\ shutdown' = [shutdown EXCEPT ![p] =
                  LET open == {id \in rooms[p] : room[id].phase # "gone"} IN
                  [result |-> IF open = {} THEN "resolved" ELSE "waiting",
                   pending |-> open, again |-> FALSE]]
    /\ UNCHANGED <<handlers, rooms, roomSubs, keys, listings, calls, tasks, nextRoom,
                   regOps, cleanup, nodes, disc>>

\* a registerNode that publishes and leaves the set alone
RegisterNodeUnlisted(p) ==
    /\ disc.reg[p] = "idle"
    /\ disc' = [disc EXCEPT !.reg[p] = "added",
                            !.channel = Append(@, <<"add", getNodeAddress(p)>>)]
    /\ UNCHANGED <<handlers, rooms, shuttingDown, procSub, roomSubs, roomcount, keys,
                   listings, room, calls, tasks, nextRoom, regOps, cleanup, shutdown, nodes>>

\* registerNode, run when the server starts listening: presence.sadd of the
\* formatted address
RegisterNode(p) ==
    /\ disc.reg[p] = "idle"
    /\ nodes' = nodes \cup {getNodeAddress(p)}
    /\ disc' = [disc EXCEPT !.reg[p] = "added"]
    /\ UNCHANGED <<handlers, rooms, shuttingDown, procSub, roomSubs, roomcount, keys,
                   listings, room, calls, tasks, nextRoom, regOps, cleanup, shutdown>>

\* registerNode, after the sadd: presence.publish of add,<address>
RegisterPublish(p) ==
    /\ disc.reg[p] = "added"
    /\ disc' = [disc EXCEPT !.reg[p] = "done",
                            !.channel = Append(@, <<"add", getNodeAddress(p)>>)]
    /\ UNCHANGED <<handlers, rooms, shuttingDown, procSub, roomSubs, roomcount, keys,
                   listings, room, calls, tasks, nextRoom, regOps, cleanup, shutdown, nodes>>

\* Server.gracefullyShutdown begins with unregisterNode: presence.srem of the
\* formatted address.  The server is listening, so that registerNode has issued
\* its sadd; it may not have published yet.
UnregisterNode(p) ==
    /\ disc.reg[p] # "idle"
    /\ disc.unreg[p] = "idle"
    /\ nodes' = nodes \ {getNodeAddress(p)}
    /\ disc' = [disc EXCEPT !.unreg[p] = "removed"]
    /\ UNCHANGED <<handlers, rooms, shuttingDown, procSub, roomSubs, roomcount, keys,
                   listings, room, calls, tasks, nextRoom, regOps, cleanup, shutdown>>

\* unregisterNode, after the srem: presence.publish of remove,<address>, issued
\* when the srem is answered, which is after registerNode's sadd was answered
\* and its publish issued; matchMaker.gracefullyShutdown is called after it.
UnregisterPublish(p) ==
    /\ disc.unreg[p] = "removed"
    /\ disc.reg[p] = "done"
    /\ disc' = [disc EXCEPT !.unreg[p] = "done",
                            !.channel = Append(@, <<"remove", getNodeAddress(p)>>)]
    /\ UNCHANGED <<handlers, rooms, shuttingDown, procSub, roomSubs, roomcount, keys,
                   listings, room, calls, tasks, nextRoom, regOps, cleanup, shutdown, nodes>>

\* The subscriber of the discovery channel receives the oldest message not
\* delivered yet and reads the nodes set.
DiscoveryDeliver ==
    /\ disc.channel # << >>
    /\ disc' = [disc EXCEPT !.channel = Tail(@),
                            !.received = Head(disc.channel),
                            !.read = nodes]
    /\ UNCHANGED <<handlers, rooms, shuttingDown, procSub, roomSubs, roomcount, keys,
                   listings, room, calls, tasks, nextRoom, regOps, cleanup, shutdown, nodes>>

----------------------------------------------------------------------------
(* The public operations, as calls made by clients on a process.           *)

\* retry(cb, 5, [SeatReservationError])
MaxAttempts == 5

\* a retry that allows one attempt more
SeatOutcomeOneMore(cs, c, ok) ==
    IF ok THEN [cs EXCEPT ![c].pc = "done", ![c].seatMsg = "none"]
    ELSE IF cs[c].op = "joinOrCreate" /\ cs[c].attempts <= MaxAttempts
    THEN [cs EXCEPT ![c].pc = "enter", ![c].attempts = @ + 1, ![c].room = NoRoom,
                    ![c].sid = NoSid, ![c].seatMsg = "none", ![c].fallback = FALSE,
                    ![c].made = FALSE]
    ELSE [cs EXCEPT ![c].pc = "failed", ![c].err = "SEAT", ![c].sid = NoSid,
                    ![c].seatMsg = "none"]

\* What retry does with the outcome of an attempt.
\* ok: the seat was reserved; otherwise reserveSeatFor threw SeatReservationError.
SeatOutcome(cs, c, ok) ==
    IF ok THEN [cs EXCEPT ![c].pc = "done", ![c].seatMsg = "none"]
    ELSE IF cs[c].op = "joinOrCreate" /\ cs[c].attempts < MaxAttempts
    THEN [cs EXCEPT ![c].pc = "enter", ![c].attempts = @ + 1, ![c].room = NoRoom,
                    ![c].sid = NoSid, ![c].seatMsg = "none", ![c].fallback = FALSE,
                    ![c].made = FALSE]
    ELSE [cs EXCEPT ![c].pc = "failed", ![c].err = "SEAT", ![c].sid = NoSid,
                    ![c].seatMsg = "none"]

\* A client calls op(name) on process p.
Start(c, op, p, name) ==
    /\ calls[c].pc = "idle"
    /\ calls' = [calls EXCEPT ![c] = [NoCall EXCEPT !.op = op, !.proc = p, !.name = name,
                     !.attempts = 1, !.made = (op = "create"),
                     !.pc = IF op = "create" THEN "pick" ELSE "enter"]]
    /\ UNCHANGED <<handlers, rooms, shuttingDown, procSub, roomSubs, roomcount, keys,
                   listings, room, tasks, nextRoom, regOps, cleanup>>
    /\ UNCHANGED <<shutdown, nodes, disc>>

\* the timeout of IPC requests, in ms
REMOTE_ROOM_SHORT_TIMEOUT == 2000

Min(a, b) == IF a <= b THEN a ELSE b

\* awaitRoomAvailable: the delay, in ms, given to setTimeout by a joiner whose
\* presence.incr returned k
concurrencyTimeout(k) ==
    LET concurrency == k - 1 IN Min(concurrency * 100, REMOTE_ROOM_SHORT_TIMEOUT)

\* awaitRoomAvailable: presence.incr(c:<name>) returns; the callback is scheduled.
GateEnter(c) ==
    LET ck == getHandlerConcurrencyKey(calls[c].name) IN
    /\ calls[c].pc = "enter"
    /\ keys' = KeyIncr(keys, ck)
    /\ calls' = [calls EXCEPT ![c].pc = "gate", ![c].k = keys'[ck]]
    /\ UNCHANGED <<handlers, rooms, shuttingDown, procSub, roomSubs, roomcount,
                   listings, room, tasks, nextRoom, regOps, cleanup>>
    /\ UNCHANGED <<shutdown, nodes, disc>>

\* a query on the name alone
AvailableByName(ls, name) == {id \in DOMAIN ls : ls[id].name = name}

\* driver.findOne({locked: false, name, private: false}): the listings it may return
Available(ls, name) ==
    {id \in DOMAIN ls : ls[id].name = name /\ ~ls[id].locked /\ ~ls[id].private}

\* The scheduled callback of awaitRoomAvailable runs: findOneRoomAvailable's
\* query, then presence.decr(c:<name>) in the finally. The delay grows with
\* the value incr returned, so on one process a callback with a shorter delay
\* runs before those with a longer one.
GateFire(c) ==
    LET cl == calls[c]
        found == Available(listings, cl.name)
    IN
    /\ cl.pc = "gate"
    /\ \A d \in CallIds :
          (calls[d].pc = "gate" /\ calls[d].proc = cl.proc) => cl.k <= calls[d].k
    /\ keys' = KeyDecr(keys, getHandlerConcurrencyKey(cl.name))
    /\ IF cl.name \notin handlers[cl.proc]
       THEN calls' = [calls EXCEPT ![c].pc = "failed", ![c].err = "NO_HANDLER", ![c].k = 0]
       ELSE IF found = {} /\ cl.op = "join"
       THEN calls' = [calls EXCEPT ![c].pc = "failed", ![c].err = "INVALID_CRITERIA",
                                   ![c].k = 0]
       ELSE IF found = {}
       THEN calls' = [calls EXCEPT ![c].pc = "pick", ![c].k = 0, ![c].made = TRUE]
       ELSE \E r \in found :
              calls' = [calls EXCEPT ![c].pc = "reserve", ![c].room = r, ![c].k = 0]
    /\ UNCHANGED <<handlers, rooms, shuttingDown, procSub, roomSubs, roomcount,
                   listings, room, tasks, nextRoom, regOps, cleanup>>
    /\ UNCHANGED <<shutdown, nodes, disc>>

\* The processes createRoom's sort may put first: the comparator answers -1 for
\* equal counts, so which of the processes with the least count comes first is
\* left to the engine's sort.
Targets(h, self) ==
    IF DOMAIN h = {} THEN {self}
    ELSE {p \in DOMAIN h : \A q \in DOMAIN h : h[p] <= h[q]}

\* createRoom: presence.hgetall(roomcount) returns; the room is created here
\* or requested from the process with fewer rooms.
CreatePick(c) ==
    LET cl == calls[c] IN
    /\ cl.pc = "pick"
    /\ \E target \in Targets(roomcount, cl.proc) :
         IF target = cl.proc
         THEN HcEnter(c, "L", cl.proc, cl.name, [calls EXCEPT ![c].pc = "hcLocal"])
         ELSE /\ tasks[c]["R"].pc = "none"
              /\ calls' = [calls EXCEPT ![c].pc = "ipcCreate", ![c].target = target]
              /\ tasks' = [tasks EXCEPT ![c]["R"] =
                             IF procSub[target]
                             THEN HcTask("queued", target, cl.name, NoRoom)
                             ELSE NoTask]
              /\ UNCHANGED <<room, rooms, nextRoom>>
    /\ UNCHANGED <<handlers, shuttingDown, procSub, roomSubs, roomcount, keys,
                   listings, regOps, cleanup>>
    /\ UNCHANGED <<shutdown, nodes, disc>>

\* The request published on p:<target> reaches the target: its subscription's
\* callback runs handleCreateRoom.
RemoteCreate(c) ==
    LET t == tasks[c]["R"] IN
    /\ t.pc = "queued"
    /\ HcEnter(c, "R", t.proc, t.name, calls)
    /\ UNCHANGED <<handlers, shuttingDown, procSub, roomSubs, roomcount, keys,
                   listings, regOps, cleanup>>
    /\ UNCHANGED <<shutdown, nodes, disc>>

\* The target's reply with the listing reaches the requester in time.
IpcCreateReply(c) ==
    /\ calls[c].pc = "ipcCreate"
    /\ tasks[c]["R"].pc = "done"
    /\ calls' = [calls EXCEPT ![c].pc = "reserve", ![c].room = tasks[c]["R"].room]
    /\ tasks' = [tasks EXCEPT ![c]["R"] = NoTask]
    /\ UNCHANGED <<handlers, rooms, shuttingDown, procSub, roomSubs, roomcount, keys,
                   listings, room, nextRoom, regOps, cleanup>>
    /\ UNCHANGED <<shutdown, nodes, disc>>

\* requestFromIPC fails (an error reply, or no reply within
\* REMOTE_ROOM_SHORT_TIMEOUT): the room is created on this process.
IpcCreateFail(c) ==
    /\ calls[c].pc = "ipcCreate"
    /\ HcEnter(c, "L", calls[c].proc, calls[c].name,
               [calls EXCEPT ![c].pc = "hcLocal", ![c].fallback = TRUE])
    /\ UNCHANGED <<handlers, shuttingDown, procSub, roomSubs, roomcount, keys,
                   listings, regOps, cleanup>>
    /\ UNCHANGED <<shutdown, nodes, disc>>

\* reserveSeatFor: a sessionId, then remoteRoomCall(roomId, '_reserveSeat'):
\* on the local room object when the room is in the local table, else as a
\* request published on $<roomId>.
Reserve(c) ==
    LET cl == calls[c] IN
    /\ cl.pc = "reserve"
    /\ UsedSids # Sids \cup {NoSid}
    /\ IF cl.room \in rooms[cl.proc]
       THEN /\ room' = [room EXCEPT ![cl.room] = ReserveSeat(@, FreshSid)]
            /\ calls' = SeatOutcome([calls EXCEPT ![c].sid = FreshSid], c,
                                    RoomAccepts(room[cl.room]))
       ELSE /\ calls' = [calls EXCEPT ![c].pc = "ipcSeat", ![c].sid = FreshSid,
                            ![c].seatMsg =
                               IF \E q \in Procs : cl.room \in roomSubs[q]
                               THEN "queued" ELSE "dropped"]
            /\ UNCHANGED room
    /\ UNCHANGED <<handlers, rooms, shuttingDown, procSub, roomSubs, roomcount, keys,
                   listings, tasks, nextRoom, regOps, cleanup>>
    /\ UNCHANGED <<shutdown, nodes, disc>>

\* The subscriber of $<roomId> gets the request and calls room._reserveSeat.
SeatServe(c) ==
    LET cl == calls[c] IN
    /\ cl.pc = "ipcSeat"
    /\ cl.seatMsg = "queued"
    /\ room' = [room EXCEPT ![cl.room] = ReserveSeat(@, cl.sid)]
    /\ calls' = [calls EXCEPT ![c].seatMsg =
                    IF RoomAccepts(room[cl.room]) THEN "yes" ELSE "no"]
    /\ UNCHANGED <<handlers, rooms, shuttingDown, procSub, roomSubs, roomcount, keys,
                   listings, tasks, nextRoom, regOps, cleanup>>
    /\ UNCHANGED <<shutdown, nodes, disc>>

\* a requester that takes any reply for an acceptance
SeatReplyAnyAnswer(c) ==
    /\ calls[c].pc = "ipcSeat"
    /\ calls[c].seatMsg \in {"yes", "no"}
    /\ calls' = SeatOutcome(calls, c, TRUE)
    /\ UNCHANGED <<handlers, rooms, shuttingDown, procSub, roomSubs, roomcount, keys,
                   listings, room, tasks, nextRoom, regOps, cleanup>>
    /\ UNCHANGED <<shutdown, nodes, disc>>

\* The reply reaches the requester in time.
SeatReply(c) ==
    /\ calls[c].pc = "ipcSeat"
    /\ calls[c].seatMsg \in {"yes", "no"}
    /\ calls' = SeatOutcome(calls, c, calls[c].seatMsg = "yes")
    /\ UNCHANGED <<handlers, rooms, shuttingDown, procSub, roomSubs, roomcount, keys,
                   listings, room, tasks, nextRoom, regOps, cleanup>>
    /\ UNCHANGED <<shutdown, nodes, disc>>

\* No reply in time: remoteRoomCall throws, reserveSeatFor takes it as a refusal.
SeatTimeout(c) ==
    /\ calls[c].pc = "ipcSeat"
    /\ calls' = SeatOutcome(calls, c, FALSE)
    /\ UNCHANGED <<handlers, rooms, shuttingDown, procSub, roomSubs, roomcount, keys,
                   listings, room, tasks, nextRoom, regOps, cleanup>>
    /\ UNCHANGED <<shutdown, nodes, disc>>

----------------------------------------------------------------------------
(* joinById.                                                               *)

\* A client calls joinById(id, options) on process p; sid is options.sessionId,
\* NoSid when the options carry none.
StartById(c, p, id, sid) ==
    /\ calls[c].pc = "idle"
    /\ calls' = [calls EXCEPT ![c] = [NoCall EXCEPT !.op = "joinById", !.proc = p,
                     !.attempts = 1, !.room = id, !.sid = sid, !.rejoin = (sid # NoSid),
                     !.pc = "byId"]]
    /\ UNCHANGED <<handlers, rooms, shuttingDown, procSub, roomSubs, roomcount, keys,
                   listings, room, tasks, nextRoom, regOps, cleanup, shutdown, nodes, disc>>

\* Room.hasReservedSeat(sessionId)
HasReservedSeat(r, sid) == sid \in r.seats

\* a joinById that reads the locked flag before it looks for a sessionId
ByIdLockedFirst(c) ==
    LET cl == calls[c] IN
    /\ cl.pc = "byId"
    /\ calls' =
          IF cl.room \notin DOMAIN listings \/ listings[cl.room].locked
          THEN [calls EXCEPT ![c].pc = "failed", ![c].err = "INVALID_ROOM_ID"]
          ELSE IF ~cl.rejoin THEN [calls EXCEPT ![c].pc = "reserve"]
          ELSE IF cl.room \in rooms[cl.proc]
          THEN IF HasReservedSeat(room[cl.room], cl.sid)
               THEN [calls EXCEPT ![c].pc = "done"]
               ELSE [calls EXCEPT ![c].pc = "failed", ![c].err = "EXPIRED"]
          ELSE [calls EXCEPT ![c].pc = "ipcHas", ![c].seatMsg =
                   IF \E q \in Procs : cl.room \in roomSubs[q] THEN "queued" ELSE "dropped"]
    /\ UNCHANGED <<handlers, rooms, shuttingDown, procSub, roomSubs, roomcount, keys,
                   listings, room, tasks, nextRoom, regOps, cleanup, shutdown, nodes, disc>>

\* a joinById that reserves a seat whatever the listing's locked flag
ByIdAnyLock(c) ==
    LET cl == calls[c] IN
    /\ cl.pc = "byId"
    /\ calls' =
          IF cl.room \notin DOMAIN listings
          THEN [calls EXCEPT ![c].pc = "failed", ![c].err = "INVALID_ROOM_ID"]
          ELSE IF ~cl.rejoin THEN [calls EXCEPT ![c].pc = "reserve"]
          ELSE IF cl.room \in rooms[cl.proc]
          THEN IF HasReservedSeat(room[cl.room], cl.sid)
               THEN [calls EXCEPT ![c].pc = "done"]
               ELSE [calls EXCEPT ![c].pc = "failed", ![c].err = "EXPIRED"]
          ELSE [calls EXCEPT ![c].pc = "ipcHas", ![c].seatMsg =
                   IF \E q \in Procs : cl.room \in roomSubs[q] THEN "queued" ELSE "dropped"]
    /\ UNCHANGED <<handlers, rooms, shuttingDown, procSub, roomSubs, roomcount, keys,
                   listings, room, tasks, nextRoom, regOps, cleanup, shutdown, nodes, disc>>

\* driver.findOne({roomId}) returns.  No listing: ERR_MATCHMAKE_INVALID_ROOM_ID.
\* With a sessionId: remoteRoomCall(roomId, 'hasReservedSeat'), on the local room
\* object or as a request on $<roomId>.  Without: reserveSeatFor when the listing
\* is not locked, else ERR_MATCHMAKE_INVALID_ROOM_ID.
ById(c) ==
    LET cl == calls[c] IN
    /\ cl.pc = "byId"
    /\ calls' =
          IF cl.room \notin DOMAIN listings
          THEN [calls EXCEPT ![c].pc = "failed", ![c].err = "INVALID_ROOM_ID"]
          ELSE IF cl.rejoin
          THEN IF cl.room \in rooms[cl.proc]
               THEN IF HasReservedSeat(room[cl.room], cl.sid)
                    THEN [calls EXCEPT ![c].pc = "done"]
                    ELSE [calls EXCEPT ![c].pc = "failed", ![c].err = "EXPIRED"]
               ELSE [calls EXCEPT ![c].pc = "ipcHas", ![c].seatMsg =
                        IF \E q \in Procs : cl.room \in roomSubs[q]
                        THEN "queued" ELSE "dropped"]
          ELSE IF ~listings[cl.room].locked
          THEN [calls EXCEPT ![c].pc = "reserve"]
          ELSE [calls EXCEPT ![c].pc = "failed", ![c].err = "INVALID_ROOM_ID"]
    /\ UNCHANGED <<handlers, rooms, shuttingDown, procSub, roomSubs, roomcount, keys,
                   listings, room, tasks, nextRoom, regOps, cleanup, shutdown, nodes, disc>>

\* The subscriber of $<roomId> gets the request and calls room.hasReservedSeat.
HasServe(c) ==
    LET cl == calls[c] IN
    /\ cl.pc = "ipcHas"
    /\ cl.seatMsg = "queued"
    /\ calls' = [calls EXCEPT ![c].seatMsg =
                    IF HasReservedSeat(room[cl.room], cl.sid) THEN "yes" ELSE "no"]
    /\ UNCHANGED <<handlers, rooms, shuttingDown, procSub, roomSubs, roomcount, keys,
                   listings, room, tasks, nextRoom, regOps, cleanup, shutdown, nodes, disc>>

\* The reply reaches the requester in time: the reservation, or "session expired".
HasReply(c) ==
    /\ calls[c].pc = "ipcHas"
    /\ calls[c].seatMsg \in {"yes", "no"}
    /\ calls' = IF calls[c].seatMsg = "yes"
                THEN [calls EXCEPT ![c].pc = "done", ![c].seatMsg = "none"]
                ELSE [calls EXCEPT ![c].pc = "failed", ![c].err = "EXPIRED",
                                   ![c].seatMsg = "none"]
    /\ UNCHANGED <<handlers, rooms, shuttingDown, procSub, roomSubs, roomcount, keys,
                   listings, room, tasks, nextRoom, regOps, cleanup, shutdown, nodes, disc>>

\* No reply in time: remoteRoomCall throws ERR_MATCHMAKE_UNHANDLED, which
\* joinById does not catch.
HasTimeout(c) ==
    /\ calls[c].pc = "ipcHas"
    /\ calls' = [calls EXCEPT ![c].pc = "failed", ![c].err = "UNHANDLED",
                              ![c].seatMsg = "none"]
    /\ UNCHANGED <<handlers, rooms, shuttingDown, procSub, roomSubs, roomcount, keys,
                   listings, room, tasks, nextRoom, regOps, cleanup, shutdown, nodes, disc>>

ByIdStep ==
    \/ \E c \in CallIds : ById(c)
    \/ \E c \in CallIds : HasServe(c)
    \/ \E c \in CallIds : HasReply(c)
    \/ \E c \in CallIds : HasTimeout(c)

----------------------------------------------------------------------------
(* remoteRoomCall(roomId, method, args, rejectionTimeout), called on its   *)
(* own, with the time that passes while its request waits for a reply.     *)

\* the time, in ms, that passes in one step of the clock
TickMs == 1000

\* the timer of requestFromIPC when it is given no timeout
IpcTimeout == REMOTE_ROOM_SHORT_TIMEOUT

Timeouts == {TickMs, REMOTE_ROOM_SHORT_TIMEOUT, REMOTE_ROOM_SHORT_TIMEOUT + TickMs}

StartRemoteCall(c, p, id, t) ==
    /\ calls[c].pc = "idle"
    /\ calls' = [calls EXCEPT ![c] = [NoCall EXCEPT !.op = "remoteRoomCall", !.proc = p,
                     !.attempts = 1, !.room = id, !.rejectionTimeout = t, !.pc = "rrc"]]
    /\ UNCHANGED <<handlers, rooms, shuttingDown, procSub, roomSubs, roomcount, keys,
                   listings, room, tasks, nextRoom, regOps, cleanup, shutdown, nodes, disc>>

\* rooms[roomId] is read: the local room object answers, or requestFromIPC
\* publishes the request on $<roomId>, with no timeout among its arguments
RemoteRoomCall(c) ==
    LET cl == calls[c] IN
    /\ cl.pc = "rrc"
    /\ calls' = IF cl.room \in rooms[cl.proc]
                THEN [calls EXCEPT ![c].pc = "done"]
                ELSE [calls EXCEPT ![c].pc = "ipcCall", ![c].requests = @ + 1,
                         ![c].seatMsg = IF \E q \in Procs : cl.room \in roomSubs[q]
                                        THEN "queued" ELSE "dropped"]
    /\ UNCHANGED <<handlers, rooms, shuttingDown, procSub, roomSubs, roomcount, keys,
                   listings, room, tasks, nextRoom, regOps, cleanup, shutdown, nodes, disc>>

\* the subscriber of $<roomId> runs the method and publishes the reply
RrcServe(c) ==
    /\ calls[c].pc = "ipcCall"
    /\ calls[c].seatMsg = "queued"
    /\ calls' = [calls EXCEPT ![c].seatMsg = "yes"]
    /\ UNCHANGED <<handlers, rooms, shuttingDown, procSub, roomSubs, roomcount, keys,
                   listings, room, tasks, nextRoom, regOps, cleanup, shutdown, nodes, disc>>

\* time passes while the request waits
RrcTick(c) ==
    /\ calls[c].pc = "ipcCall"
    /\ calls[c].elapsed < IpcTimeout
    /\ calls' = [calls EXCEPT ![c].elapsed = @ + TickMs]
    /\ UNCHANGED <<handlers, rooms, shuttingDown, procSub, roomSubs, roomcount, keys,
                   listings, room, tasks, nextRoom, regOps, cleanup, shutdown, nodes, disc>>

\* the reply reaches the requester before its timer has run out
RrcReply(c) ==
    /\ calls[c].pc = "ipcCall"
    /\ calls[c].seatMsg = "yes"
    /\ calls[c].elapsed < IpcTimeout
    /\ calls' = [calls EXCEPT ![c].pc = "done", ![c].seatMsg = "none"]
    /\ UNCHANGED <<handlers, rooms, shuttingDown, procSub, roomSubs, roomcount, keys,
                   listings, room, tasks, nextRoom, regOps, cleanup, shutdown, nodes, disc>>

\* the timer of requestFromIPC runs out: remoteRoomCall throws
\* ERR_MATCHMAKE_UNHANDLED
RrcTimeout(c) ==
    /\ calls[c].pc = "ipcCall"
    /\ calls[c].elapsed >= IpcTimeout
    /\ calls' = [calls EXCEPT ![c].pc = "failed", ![c].err = "UNHANDLED",
                              ![c].seatMsg = "none"]
    /\ UNCHANGED <<handlers, rooms, shuttingDown, procSub, roomSubs, roomcount, keys,
                   listings, room, tasks, nextRoom, regOps, cleanup, shutdown, nodes, disc>>

RrcStep ==
    \/ \E c \in CallIds : RemoteRoomCall(c)
    \/ \E c \in CallIds : RrcServe(c)
    \/ \E c \in CallIds : RrcTick(c)
    \/ \E c \in CallIds : RrcReply(c)
    \/ \E c \in CallIds : RrcTimeout(c)

----------------------------------------------------------------------------
(* Server.handleMatchMakeRequest: a POST on /matchmake/<method>/<name>.    *)

exposedMethods == {"joinOrCreate", "create", "join", "joinById"}

\* other functions the matchmaker module exports
OtherMethods == {"query", "removeRoomType", "gracefullyShutdown"}

\* the code an error carries: a MatchMakeError made with one, or none
CodeOf(err) ==
    IF err \in {"NO_HANDLER", "INVALID_ROOM_ID", "INVALID_CRITERIA", "EXPIRED", "UNHANDLED"}
    THEN err ELSE "none"

\* e.code || Protocol.ERR_MATCHMAKE_UNHANDLED
AnsweredCode(err) == IF CodeOf(err) = "none" THEN "UNHANDLED" ELSE CodeOf(err)

\* the call matchMaker[method](name, body) begins
Invoked(p, method, n, id, sid) ==
    IF method = "joinById"
    THEN [NoCall EXCEPT !.op = method, !.proc = p, !.attempts = 1, !.room = id,
                        !.sid = sid, !.rejoin = (sid # NoSid),
                        !.pc = "byId", !.http = TRUE, !.method = method]
    ELSE [NoCall EXCEPT !.op = method, !.proc = p, !.name = n, !.attempts = 1,
                        !.made = (method = "create"),
                        !.pc = IF method = "create" THEN "pick" ELSE "enter",
                        !.http = TRUE, !.method = method]

\* a handler that calls whatever function the url names
HttpPostAnyMethod(c, p, method, n, id, sid) ==
    /\ calls[c].pc = "idle"
    /\ IF method \in exposedMethods
       THEN /\ calls' = [calls EXCEPT ![c] = Invoked(p, method, n, id, sid)]
            /\ UNCHANGED handlers
       ELSE /\ calls' = [calls EXCEPT ![c] =
                   [NoCall EXCEPT !.proc = p, !.pc = "done", !.http = TRUE,
                                  !.method = method, !.response = "ok"]]
            /\ handlers' = IF method = "removeRoomType"
                           THEN [handlers EXCEPT ![p] = @ \ {n}] ELSE handlers
    /\ UNCHANGED <<rooms, shuttingDown, procSub, roomSubs, roomcount, keys,
                   listings, room, tasks, nextRoom, regOps, cleanup, shutdown, nodes, disc>>

\* The request's body has arrived (its options may hold a sessionId): a method
\* that is not exposed is answered with the error at once, an exposed one is
\* called.
HttpPost(c, p, method, n, id, sid) ==
    /\ calls[c].pc = "idle"
    /\ calls' = [calls EXCEPT ![c] =
          IF method \in exposedMethods
          THEN Invoked(p, method, n, id, sid)
          ELSE [NoCall EXCEPT !.proc = p, !.pc = "failed", !.err = "UNHANDLED",
                              !.http = TRUE, !.method = method,
                              !.response = AnsweredCode("UNHANDLED")]]
    /\ UNCHANGED <<handlers, rooms, shuttingDown, procSub, roomSubs, roomcount, keys,
                   listings, room, tasks, nextRoom, regOps, cleanup, shutdown, nodes, disc>>

\* The exposed method has returned or thrown: the response is written and ended.
HttpAnswer(c) ==
    /\ calls[c].http
    /\ calls[c].response = "none"
    /\ calls[c].pc \in {"done", "failed"}
    /\ calls' = [calls EXCEPT ![c].response =
                    IF calls[c].pc = "done" THEN "ok" ELSE AnsweredCode(calls[c].err)]
    /\ UNCHANGED <<handlers, rooms, shuttingDown, procSub, roomSubs, roomcount, keys,
                   listings, room, tasks, nextRoom, regOps, cleanup, shutdown, nodes, disc>>

----------------------------------------------------------------------------
(* The handler registry and cleanupStaleRooms.                             *)

\* defineRoomType: the handler is registered, cleanupStaleRooms(name) is started
DefineRoomType(p, name) ==
    /\ regOps < MaxRegistryOps
    /\ cleanup[p].pc = "none"
    /\ regOps' = regOps + 1
    /\ handlers' = [handlers EXCEPT ![p] = @ \cup {name}]
    /\ cleanup' = [cleanup EXCEPT ![p] = [pc |-> "find", name |-> name, todo |-> {}]]
    /\ UNCHANGED <<rooms, shuttingDown, procSub, roomSubs, roomcount, keys, listings,
                   room, calls, tasks, nextRoom>>
    /\ UNCHANGED <<shutdown, nodes, disc>>

\* removeRoomType: the handler is deleted, cleanupStaleRooms(name) is started
RemoveRoomType(p, name) ==
    /\ regOps < MaxRegistryOps
    /\ cleanup[p].pc = "none"
    /\ regOps' = regOps + 1
    /\ handlers' = [handlers EXCEPT ![p] = @ \ {name}]
    /\ cleanup' = [cleanup EXCEPT ![p] = [pc |-> "find", name |-> name, todo |-> {}]]
    /\ UNCHANGED <<rooms, shuttingDown, procSub, roomSubs, roomcount, keys, listings,
                   room, calls, tasks, nextRoom>>
    /\ UNCHANGED <<shutdown, nodes, disc>>

\* cleanupStaleRooms: driver.find({name}) returns the cached rooms, and
\* presence.del(c:<name>) is issued; the probes follow.
CleanupFind(p) ==
    LET cu == cleanup[p]
        cached == {id \in DOMAIN listings : listings[id].name = cu.name}
    IN
    /\ cu.pc = "find"
    /\ keys' = KeyDel(keys, getHandlerConcurrencyKey(cu.name))
    /\ cleanup' = [cleanup EXCEPT ![p] =
                      IF cached = {} THEN NoCleanup
                      ELSE [pc |-> "probe", name |-> cu.name, todo |-> cached]]
    /\ UNCHANGED <<handlers, rooms, shuttingDown, procSub, roomSubs, roomcount,
                   listings, room, calls, tasks, nextRoom, regOps>>
    /\ UNCHANGED <<shutdown, nodes, disc>>

CleanupNext(cu, id) ==
    IF cu.todo = {id} THEN NoCleanup ELSE [cu EXCEPT !.todo = @ \ {id}]

\* a cleanup that removes every cached listing without a probe
CleanupProbeless(p, id) ==
    LET cu == cleanup[p] IN
    /\ cu.pc = "probe"
    /\ id \in cu.todo
    /\ cleanup' = [cleanup EXCEPT ![p] = CleanupNext(cu, id)]
    /\ listings' = [x \in DOMAIN listings \ {id} |-> listings[x]]
    /\ keys' = clearRoomReferences(keys, id)
    /\ UNCHANGED <<handlers, rooms, shuttingDown, procSub, roomSubs, roomcount,
                   room, calls, tasks, nextRoom, regOps>>
    /\ UNCHANGED <<shutdown, nodes, disc>>

\* a probe whose failure leaves the listing in the driver
CleanupProbeKeeping(p, id) ==
    LET cu == cleanup[p] IN
    /\ cu.pc = "probe"
    /\ id \in cu.todo
    /\ cleanup' = [cleanup EXCEPT ![p] = CleanupNext(cu, id)]
    /\ UNCHANGED <<listings, keys>>
    /\ UNCHANGED <<handlers, rooms, shuttingDown, procSub, roomSubs, roomcount,
                   room, calls, tasks, nextRoom, regOps>>
    /\ UNCHANGED <<shutdown, nodes, disc>>

\* The probe remoteRoomCall(roomId, 'roomId') of one cached room settles: it is
\* answered (by the local room object, or by a subscriber of $<roomId>), or it
\* fails and the listing is removed as stale.
CleanupProbe(p, id) ==
    LET cu == cleanup[p] IN
    /\ cu.pc = "probe"
    /\ id \in cu.todo
    /\ cleanup' = [cleanup EXCEPT ![p] = CleanupNext(cu, id)]
    /\ \/ /\ id \in rooms[p] \/ \E q \in Procs : id \in roomSubs[q]
          /\ UNCHANGED <<listings, keys>>
       \/ /\ id \notin rooms[p]
          /\ listings' = [x \in DOMAIN listings \ {id} |-> listings[x]]
          /\ keys' = clearRoomReferences(keys, id)
    /\ UNCHANGED <<handlers, rooms, shuttingDown, procSub, roomSubs, roomcount,
                   room, calls, tasks, nextRoom, regOps>>
    /\ UNCHANGED <<shutdown, nodes, disc>>

----------------------------------------------------------------------------
(* The steps every specification below shares: the steps of the calls in   *)
(* progress, of the handleCreateRoom runs, and the rooms' lock, unlock and *)
(* dispose events.                                                         *)

CallStep ==
    \/ \E c \in CallIds : CreatePick(c)
    \/ \E c \in CallIds : RemoteCreate(c)
    \/ \E c \in CallIds : IpcCreateReply(c)
    \/ \E c \in CallIds : IpcCreateFail(c)
    \/ \E c \in CallIds, s \in Sides : HcOnCreateDone(c, s)
    \/ \E c \in CallIds, s \in Sides : HcSubscribed(c, s)
    \/ \E c \in CallIds, s \in Sides : HcSaved(c, s)
    \/ \E c \in CallIds : Reserve(c)
    \/ \E c \in CallIds : SeatServe(c)
    \/ \E c \in CallIds : SeatReply(c)
    \/ \E c \in CallIds : SeatTimeout(c)

RoomStep ==
    \/ \E id \in RoomIds : RoomLock(id)
    \/ \E id \in RoomIds : RoomUnlock(id)
    \/ \E id \in RoomIds : RoomDispose(id)

Finished(c) == calls[c].pc \in {"done", "failed"}

(* Spec: one create call of a client, on either process and for either     *)
(* room type, among the rooms' events, the graceful shutdown of either     *)
(* process, and a change of process A's handler registry with its cleanup. *)
Next ==
    \/ \E p \in Procs, n \in Names : Start(1, "create", p, n)
    \/ CallStep
    \/ RoomStep
    \/ \E p \in Procs : ~shuttingDown[p] /\ GracefullyShutdown(p)
    \/ \E n \in Names : DefineRoomType("A", n)
    \/ \E n \in Names : RemoveRoomType("A", n)
    \/ \E p \in Procs : CleanupFind(p)
    \/ \E p \in Procs, id \in RoomIds : CleanupProbe(p, id)

Spec == Init /\ [][Next]_vars

(* SpecTypes: as Spec, with no process shutting down.                      *)
NextTypes ==
    \/ \E p \in Procs, n \in Names : Start(1, "create", p, n)
    \/ CallStep
    \/ RoomStep
    \/ \E n \in Names : DefineRoomType("A", n)
    \/ \E n \in Names : RemoveRoomType("A", n)
    \/ \E p \in Procs : CleanupFind(p)
    \/ \E p \in Procs, id \in RoomIds : CleanupProbe(p, id)

SpecTypes == Init /\ [][NextTypes]_vars

(* SpecShutdown: one create call of a client among the rooms' events and   *)
(* the shutdown of the servers: unregisterNode, then the matchmaker's      *)
(* gracefullyShutdown, which may be called again; a room's disconnect()    *)
(* may fail.  Calls in progress go on, and a room that was asked to        *)
(* disconnect emits its dispose.                                           *)
NextShutdown ==
    \/ \E p \in Procs, n \in Names : Start(1, "create", p, n)
    \/ CallStep
    \/ RoomStep
    \/ \E p \in Procs : UnregisterNode(p)
    \/ \E p \in Procs : UnregisterPublish(p)
    \/ \E p \in Procs : disc.unreg[p] = "done" /\ GracefullyShutdown(p)
    \/ \E id \in RoomIds : DisconnectFail(id)

DisconnectedRoomDisposes == \E id \in RoomIds : room[id].disconnecting /\ RoomDispose(id)

SpecShutdown ==
    /\ Init /\ [][NextShutdown]_vars
    /\ WF_vars(CallStep)
    /\ WF_vars(DisconnectedRoomDisposes)

(* SpecById: a create call, then a joinById call, with or without a        *)
(* sessionId, on either process, among the rooms' events.                  *)
NextById ==
    \/ \E p \in Procs, n \in Names : Start(1, "create", p, n)
    \/ \E p \in Procs, id \in RoomIds, sid \in Sids \cup {NoSid} :
          Finished(1) /\ StartById(2, p, id, sid)
    \/ ByIdStep
    \/ CallStep
    \/ RoomStep

SpecById == Init /\ [][NextById]_vars

(* SpecCleanup: a process that ended without a graceful shutdown has left a *)
(* listing in the driver, and maybe a counter c:<name>; a process defines a *)
(* room type, among one create call of a client and the rooms' events.      *)
GhostId == MaxRooms + 1

InitStale ==
    /\ handlers = [p \in Procs |-> Names]
    /\ rooms = [p \in Procs |-> {}]
    /\ shuttingDown = [p \in Procs |-> FALSE]
    /\ procSub = [p \in Procs |-> TRUE]
    /\ roomSubs = [p \in Procs |-> {}]
    /\ roomcount = [p \in Procs |-> 0]
    /\ \E n \in Names :
          /\ listings = (GhostId :> [name |-> n, processId |-> "ghost",
                                     locked |-> FALSE, private |-> FALSE])
          /\ keys \in {<< >>, (getHandlerConcurrencyKey(n) :> 1)}
    /\ room = [id \in RoomIds |-> NoRoomObj]
    /\ calls = [c \in CallIds |-> NoCall]
    /\ tasks = [c \in CallIds |-> [s \in Sides |-> NoTask]]
    /\ nextRoom = 1
    /\ regOps = 0
    /\ cleanup = [p \in Procs |-> NoCleanup]
    /\ shutdown = [p \in Procs |-> NoShutdown]
    /\ nodes = {getNodeAddress(p) : p \in Procs}
    /\ disc = Discovered(Procs)

NextCleanup ==
    \/ \E p \in Procs, n \in Names : Start(1, "create", p, n)
    \/ CallStep
    \/ RoomStep
    \/ \E p \in Procs, n \in Names : DefineRoomType(p, n)
    \/ \E p \in Procs : CleanupFind(p)
    \/ \E p \in Procs, id \in RoomIds \cup {GhostId} : CleanupProbe(p, id)

\* the driver and presence answer, and a probe is answered or times out
CleanupRuns(p) ==
    \/ CleanupFind(p)
    \/ \E id \in RoomIds \cup {GhostId} : CleanupProbe(p, id)

SpecCleanup ==
    /\ InitStale
    /\ [][NextCleanup]_vars
    /\ \A p \in Procs : WF_vars(CleanupRuns(p))

(* SpecDiscovery: the servers start listening and register, shut down and  *)
(* unregister, and the subscriber of the discovery channel receives what   *)
(* they publish.                                                           *)
InitDiscovery ==
    /\ handlers = [p \in Procs |-> Names]
    /\ rooms = [p \in Procs |-> {}]
    /\ shuttingDown = [p \in Procs |-> FALSE]
    /\ procSub = [p \in Procs |-> TRUE]
    /\ roomSubs = [p \in Procs |-> {}]
    /\ roomcount = [p \in Procs |-> 0]
    /\ keys = << >>
    /\ listings = << >>
    /\ room = [id \in RoomIds |-> NoRoomObj]
    /\ calls = [c \in CallIds |-> NoCall]
    /\ tasks = [c \in CallIds |-> [s \in Sides |-> NoTask]]
    /\ nextRoom = 1
    /\ regOps = 0
    /\ cleanup = [p \in Procs |-> NoCleanup]
    /\ shutdown = [p \in Procs |-> NoShutdown]
    /\ nodes = {}
    /\ disc = Discovered({})

NextDiscovery ==
    \/ \E p \in Procs : RegisterNode(p)
    \/ \E p \in Procs : RegisterPublish(p)
    \/ \E p \in Procs : UnregisterNode(p)
    \/ \E p \in Procs : UnregisterPublish(p)
    \/ \E p \in Procs : disc.unreg[p] = "done" /\ ~shuttingDown[p] /\ GracefullyShutdown(p)
    \/ DiscoveryDeliver

SpecDiscovery == InitDiscovery /\ [][NextDiscovery]_vars

(* SpecRemoteCall: a create call, then a remoteRoomCall for a room from    *)
(* either process, with a timeout of the caller's choice, among the rooms' *)
(* events.                                                                 *)
NextRemoteCall ==
    \/ \E p \in Procs, n \in Names : Start(1, "create", p, n)
    \/ \E p \in Procs, id \in RoomIds, t \in Timeouts :
          Finished(1) /\ StartRemoteCall(2, p, id, t)
    \/ RrcStep
    \/ CallStep
    \/ RoomStep

SpecRemoteCall == Init /\ [][NextRemoteCall]_vars

(* SpecHttp: a create call on process B, then a POST matchmake request on  *)
(* process A, for a method exposed or not, among the rooms' events.        *)
NextHttp ==
    \/ \E n \in Names : Start(1, "create", "B", n)
    \/ \E m \in exposedMethods \cup OtherMethods, n \in Names, id \in RoomIds,
          sid \in Sids \cup {NoSid} :
             Finished(1) /\ HttpPost(2, "A", m, n, id, sid)
    \/ \E c \in CallIds : HttpAnswer(c)
    \/ \E c \in CallIds : GateEnter(c)
    \/ \E c \in CallIds : GateFire(c)
    \/ ByIdStep
    \/ CallStep
    \/ RoomStep

HttpRuns ==
    \/ \E c \in CallIds : HttpAnswer(c)
    \/ \E c \in CallIds : GateEnter(c)
    \/ \E c \in CallIds : GateFire(c)
    \/ ByIdStep
    \/ CallStep

SpecHttp == Init /\ [][NextHttp]_vars /\ WF_vars(HttpRuns)

(* SpecJoin: a create call on process B, then a joinOrCreate call on       *)
(* process A, among the rooms' events (a room may also be made private).   *)
NextJoin ==
    \/ \E n \in Names : Start(1, "create", "B", n)
    \/ \E n \in Names : Finished(1) /\ Start(2, "joinOrCreate", "A", n)
    \/ \E c \in CallIds : GateEnter(c)
    \/ \E c \in CallIds : GateFire(c)
    \/ CallStep
    \/ RoomStep
    \/ \E id \in RoomIds : RoomSetPrivate(id)

SpecJoin == Init /\ [][NextJoin]_vars

(* SpecBurst: a cluster of the one process A, on which MaxCalls clients    *)
(* have called joinOrCreate("chat") at once, no room existing; no room is  *)
(* locked or disposed.                                                     *)
InitSolo ==
    /\ handlers = [p \in Procs |-> IF p = "A" THEN Names ELSE {}]
    /\ rooms = [p \in Procs |-> {}]
    /\ shuttingDown = [p \in Procs |-> FALSE]
    /\ procSub = [p \in Procs |-> p = "A"]
    /\ roomSubs = [p \in Procs |-> {}]
    /\ roomcount = [p \in {"A"} |-> 0]
    /\ keys = << >>
    /\ listings = << >>
    /\ room = [id \in RoomIds |-> NoRoomObj]
    /\ calls = [c \in CallIds |->
                  [NoCall EXCEPT !.op = "joinOrCreate", !.proc = "A", !.name = "chat",
                                 !.attempts = 1, !.pc = "enter"]]
    /\ tasks = [c \in CallIds |-> [s \in Sides |-> NoTask]]
    /\ nextRoom = 1
    /\ regOps = 0
    /\ cleanup = [p \in Procs |-> NoCleanup]
    /\ shutdown = [p \in Procs |-> NoShutdown]
    /\ nodes = {getNodeAddress("A")}
    /\ disc = Discovered({"A"})

NextBurst ==
    \/ \E c \in CallIds : GateEnter(c)
    \/ \E c \in CallIds : GateFire(c)
    \/ \E c \in CallIds : CreatePick(c)
    \/ \E c \in CallIds, s \in Sides : HcOnCreateDone(c, s)
    \/ \E c \in CallIds, s \in Sides : HcSubscribed(c, s)
    \/ \E c \in CallIds, s \in Sides : HcSaved(c, s)
    \/ \E c \in CallIds : Reserve(c)

SpecBurst == InitSolo /\ [][NextBurst]_vars

----------------------------------------------------------------------------
(* C1: once disposeRoom has handled a room's dispose event, the owner's    *)
(* local room table has no entry for the roomId, the owner holds no        *)
(* subscription on $<roomId>, and the driver holds no listing for it.      *)
C1_DisposedRoomIsGone ==
    \A id \in RoomIds :
        room[id].phase = "gone" =>
            /\ id \notin rooms[room[id].owner]
            /\ id \notin roomSubs[room[id].owner]
            /\ id \notin DOMAIN listings

(* C2: in every state a roomId is in a process's local room table if and   *)
(* only if that process holds a subscription on $<roomId>.                 *)
C2_TableIffSubscribed ==
    \A p \in Procs : \A id \in RoomIds : id \in rooms[p] <=> id \in roomSubs[p]

(* C3, as claimed: from the lock event handled by lockRoom until the next  *)
(* unlock the owner holds no subscription on $<roomId>.                    *)
C3_LockedRoomUnsubscribed ==
    \A id \in RoomIds :
        (room[id].phase = "live" /\ room[id].locked) => id \notin roomSubs[room[id].owner]

(* C3, amended: lockRoom leaves the owner's subscription on $<roomId> and  *)
(* the local table entry in place, so a _reserveSeat request published on  *)
(* that channel for a locked room is still served, by the room itself.     *)
C3_LockKeepsSubscription ==
    \A id \in RoomIds :
        (room[id].phase = "live" /\ room[id].locked) =>
            /\ id \in roomSubs[room[id].owner]
            /\ id \in rooms[room[id].owner]

\* a request for a seat in a locked room, published by another process, was served
C3_Witness ==
    \E c \in CallIds :
        /\ calls[c].pc = "ipcSeat"
        /\ calls[c].seatMsg = "no"
        /\ room[calls[c].room].phase = "live"
        /\ room[calls[c].room].locked
        /\ calls[c].proc # room[calls[c].room].owner
        /\ Cardinality(room[calls[c].room].seats) < MaxClients

(* C4: when findOneRoomAvailable(name) returns a listing, that listing has *)
(* the requested name and is neither locked nor private at the time of the *)
(* query, and the room it describes is neither locked nor disposed, in any *)
(* interleaving with the rooms' create, lock, unlock and dispose events.   *)
C4_FoundStep ==
    \A c \in CallIds :
        (calls[c].pc = "gate" /\ calls'[c].pc = "reserve") =>
            LET r == calls'[c].room IN
            /\ r \in DOMAIN listings
            /\ listings[r].name = calls[c].name
            /\ ~listings[r].locked
            /\ ~listings[r].private
            /\ room[r].phase = "live"
            /\ ~room[r].locked

\* C4: every listing findOneRoomAvailable returns is available when queried
C4_FoundIsAvailable == [][C4_FoundStep]_vars

\* a later attempt of joinOrCreate took the listing of an existing room
C4_Witness ==
    \E c \in CallIds :
        /\ calls[c].op = "joinOrCreate"
        /\ calls[c].attempts = 2
        /\ calls[c].pc = "reserve"
        /\ ~calls[c].made
        /\ calls[c].room \in Available(listings, calls[c].name)

(* C5: when no operation is in progress, the roomcount field of every      *)
(* process that is not shutting down equals the number of rooms in that    *)
(* process's table.                                                        *)
Quiescent ==
    /\ \A c \in CallIds : calls[c].pc \in {"idle", "done", "failed"}
    /\ \A c \in CallIds, s \in Sides : tasks[c][s].pc = "none"
    /\ \A p \in Procs : cleanup[p].pc = "none"

\* C5: at quiescence roomcount[p] is the number of rooms p owns
C5_CountIsRoomsOwned ==
    Quiescent =>
        \A p \in Procs : ~shuttingDown[p] => HGet(roomcount, p) = Cardinality(rooms[p])

(* C6: a joinOrCreate call makes at most MaxAttempts attempts; a further   *)
(* attempt is made only after a SeatReservationError of reserveSeatFor;    *)
(* any other error ends the call at once; every step of the call moves it  *)
(* forward, so that it ends after a bounded number of steps.               *)
PcRank(pc) ==
    CASE pc = "idle" -> 0 [] pc = "enter" -> 1 [] pc = "gate" -> 2 [] pc = "pick" -> 3
      [] pc = "ipcCreate" -> 4 [] pc = "hcLocal" -> 5 [] pc = "reserve" -> 6
      [] pc = "ipcSeat" -> 7 [] OTHER -> 8

CallRank(cl) == cl.attempts * 10 + PcRank(cl.pc)

C6_State ==
    \A c \in CallIds :
        calls[c].op = "joinOrCreate" =>
            /\ calls[c].attempts <= MaxAttempts
            /\ calls[c].err \in {"NO_HANDLER", "ONCREATE"} => calls[c].pc = "failed"
            /\ (calls[c].pc = "failed" /\ calls[c].err = "SEAT") => calls[c].attempts = MaxAttempts
            /\ calls[c].pc = "done" => calls[c].sid # NoSid

C6_Step ==
    \A c \in CallIds :
        calls[c].op = "joinOrCreate" =>
            /\ calls'[c].pc # calls[c].pc => CallRank(calls'[c]) > CallRank(calls[c])
            /\ calls'[c].attempts # calls[c].attempts =>
                  /\ calls[c].pc \in {"reserve", "ipcSeat"}
                  /\ calls'[c].attempts = calls[c].attempts + 1
                  /\ calls'[c].pc = "enter"
            /\ Finished(c) => calls'[c] = calls[c]

\* C6: at most MaxAttempts attempts, retried only after a seat refusal, always forward
C6_AtMostFiveAttempts == []C6_State /\ [][C6_Step]_vars

\* the fifth attempt ended in a SeatReservationError
C6_Witness ==
    \E c \in CallIds :
        /\ calls[c].op = "joinOrCreate"
        /\ calls[c].pc = "failed"
        /\ calls[c].err = "SEAT"
        /\ calls[c].attempts = MaxAttempts

(* C7, as claimed: once the MaxCalls simultaneous joinOrCreate calls have  *)
(* all returned, exactly one room was created, the calls hold distinct     *)
(* sessionIds on that one room, and c:<name> is back to 0.                 *)
AllDone == \A c \in CallIds : calls[c].pc = "done"

DistinctSeats ==
    /\ \A c \in CallIds : calls[c].pc = "done" =>
          /\ calls[c].sid # NoSid
          /\ calls[c].room \in RoomIds
          /\ calls[c].sid \in room[calls[c].room].seats
    /\ \A c, d \in CallIds :
          (c # d /\ calls[c].pc = "done" /\ calls[d].pc = "done") => calls[c].sid # calls[d].sid

C7_ExactlyOneRoom ==
    AllDone =>
        /\ nextRoom = 2
        /\ \A c \in CallIds : calls[c].room = 1
        /\ DistinctSeats
        /\ KeyGet(keys, getHandlerConcurrencyKey("chat")) = 0

(* C7, amended: once the calls have all returned, every call that found no *)
(* listing created a room of its own (so between one and MaxCalls rooms    *)
(* were created), every call that returned a reservation holds a sessionId *)
(* of its own on a room of that name, and c:<name> is back to 0.           *)
C7_OneRoomPerEmptyFind ==
    (\A c \in CallIds : Finished(c)) =>
        /\ nextRoom - 1 = Cardinality({c \in CallIds : calls[c].made})
        /\ nextRoom - 1 >= 1
        /\ nextRoom - 1 <= MaxCalls
        /\ DistinctSeats
        /\ \A c \in CallIds : calls[c].pc = "done" => room[calls[c].room].name = calls[c].name
        /\ KeyGet(keys, getHandlerConcurrencyKey("chat")) = 0

\* all calls returned reservations, on more than one room
C7_Witness == AllDone /\ nextRoom > 2 /\ \E c, d \in CallIds : calls[c].room # calls[d].room

(* C8: whenever no findOneRoomAvailable(name) is between its incr and its  *)
(* decr, the counter c:<name> in presence is 0.                            *)
C8_CounterZeroWhenIdle ==
    \A n \in Names :
        (\A c \in CallIds : ~(calls[c].pc = "gate" /\ calls[c].name = n)) =>
            KeyGet(keys, getHandlerConcurrencyKey(n)) = 0

(* C9: createRoom picks a process with the least room count, among equal   *)
(* counts the one whose id comes first, and the calling process when the   *)
(* hash is empty.                                                          *)
Picked(c) == IF calls'[c].pc = "ipcCreate" THEN calls'[c].target ELSE calls[c].proc

FirstOf(S) == IF "A" \in S THEN "A" ELSE "B"

C9_FirstStep ==
    \A c \in CallIds :
        (calls[c].pc = "pick" /\ calls'[c].pc # "pick") =>
            Picked(c) = FirstOf(Targets(roomcount, calls[c].proc))

\* C9: the process picked is the first, by id, of those with the least count
C9_TieGoesToFirstId == [][C9_FirstStep]_vars

(* What createRoom's choice does satisfy: the process picked has a least   *)
(* room count, and is the calling process when the hash is empty.          *)
LeastCountStep ==
    \A c \in CallIds :
        (calls[c].pc = "pick" /\ calls'[c].pc # "pick") =>
            IF DOMAIN roomcount = {}
            THEN Picked(c) = calls[c].proc
            ELSE /\ Picked(c) \in DOMAIN roomcount
                 /\ \A q \in DOMAIN roomcount : roomcount[Picked(c)] <= roomcount[q]

PicksLeastCount == [][LeastCountStep]_vars

(* C10: when the remote creation fails or times out, handleCreateRoom runs *)
(* on the calling process: the roomcount field of that process goes up by  *)
(* one as the room is registered, and when the listing is saved it names   *)
(* the calling process and the room is in that process's table.            *)
C10_FallbackStep ==
    \A c \in CallIds :
        LET p == calls[c].proc
            t == tasks[c]["L"]
            u == tasks'[c]["L"]
        IN
        calls'[c].fallback =>
            /\ (u.pc = "subscribing" /\ t.pc # "subscribing") =>
                  HGet(roomcount', p) = HGet(roomcount, p) + 1
            /\ (t.pc = "saving" /\ calls'[c].pc = "reserve") =>
                  /\ t.room \in DOMAIN listings'
                  /\ listings'[t.room].processId = p
                  /\ t.room \in rooms'[p]

\* C10: the fallback creates the room on the caller and counts it there
C10_FallbackCreatesLocally == [][C10_FallbackStep]_vars

(* C14: a call of gracefullyShutdown on a process that is already shutting *)
(* down is rejected and has no side effect: roomcount, the subscriptions,  *)
(* the rooms and everything else stay as they are, and the promise of the  *)
(* first call is not touched.                                              *)
C14_RepeatStep ==
    \A p \in Procs :
        (shutdown'[p].again /\ ~shutdown[p].again) =>
            /\ shuttingDown[p]
            /\ shutdown' = [shutdown EXCEPT ![p].again = TRUE]
            /\ UNCHANGED <<handlers, rooms, shuttingDown, procSub, roomSubs, roomcount,
                           keys, listings, room, calls, tasks, nextRoom, nodes, disc>>

ShutDownClean(p) ==
    /\ rooms[p] = {}
    /\ \A id \in DOMAIN listings : listings[id].processId # p
    /\ p \notin DOMAIN roomcount
    /\ ~procSub[p]
    /\ getNodeAddress(p) \notin nodes

\* C15: every shutdown leads to the process being cleaned out of the cluster
C15_ShutdownCleansUp == \A p \in Procs : shuttingDown[p] ~> ShutDownClean(p)

(* C16: the promise of gracefullyShutdown is settled only once every       *)
(* room's disconnect() has settled, and a failing disconnect() does not    *)
(* make it fail.                                                           *)
C16_ShutdownWaitsForAll ==
    \A p \in Procs :
        shutdown[p].result \in {"resolved", "rejected"} =>
            /\ shutdown[p].pending = {}
            /\ shutdown[p].result = "resolved"

(* C13: reserveSeatFor returns {room, sessionId}, with a sessionId no one  *)
(* held, exactly when the room's _reserveSeat answered true (to the local  *)
(* call, or in a reply received in time); in every other case (answer      *)
(* false, no subscriber, no reply in time) it fails, with a                *)
(* SeatReservationError.                                                   *)
InReserve(cl) == cl.pc \in {"reserve", "ipcSeat"}

C13_Step ==
    \A c \in CallIds :
        LET cl == calls[c]
            dl == calls'[c]
        IN
        /\ (cl.pc = "reserve" /\ dl.pc # "reserve") =>
              /\ \A d \in CallIds : d # c => calls[d].sid # FreshSid
              /\ \A id \in RoomIds : FreshSid \notin room[id].seats
              /\ dl.pc = "ipcSeat" => dl.sid = FreshSid
              /\ dl.pc = "done" <=> (cl.room \in rooms[cl.proc] /\ RoomAccepts(room[cl.room]))
              /\ dl.pc = "done" => dl.sid = FreshSid
        /\ (cl.pc = "ipcSeat" /\ dl.pc # "ipcSeat") =>
              /\ dl.pc = "done" => (cl.seatMsg = "yes" /\ dl.sid = cl.sid)
              /\ cl.seatMsg \in {"no", "dropped", "queued"} => dl.pc # "done"
        /\ (InReserve(cl) /\ dl.pc = "done") =>
              /\ dl.room = cl.room
              /\ dl.sid # NoSid
              /\ dl.sid \in room'[dl.room].seats
        /\ (InReserve(cl) /\ ~InReserve(dl) /\ dl.pc # "done") =>
              \/ dl.pc = "failed" /\ dl.err = "SEAT"
              \/ dl.pc = "enter" /\ dl.op = "joinOrCreate"

\* C13: a reservation is returned exactly for an accepted seat, else SeatReservationError
C13_SeatOrSeatReservationError == [][C13_Step]_vars

\* a reservation returned for a seat that the room's owner, another process, accepted
C13_Witness ==
    \E c \in CallIds :
        /\ calls[c].pc = "done"
        /\ calls[c].room \notin rooms[calls[c].proc]
        /\ calls[c].sid \in room[calls[c].room].seats
        /\ room[calls[c].room].owner # calls[c].proc

(* C18: a handleCreateRoom that fails, for want of a handler or because    *)
(* onCreate throws, leaves roomcount, the room table, the subscriptions    *)
(* and the listings as they were: none of its steps changes them.          *)
C18_Step ==
    \A c \in CallIds, sd \in Sides :
        LET t == tasks[c][sd]
            u == tasks'[c][sd]
            entered == u.pc = "onCreate" /\ t.pc # "onCreate"
            threw == t.pc = "onCreate" /\ u.pc = "none"
            noHandler ==
                \/ sd = "R" /\ t.pc = "queued" /\ u.pc = "none"
                \/ sd = "L" /\ calls[c].pc \in {"pick", "ipcCreate"}
                            /\ calls'[c].pc = "failed" /\ calls'[c].err = "NO_HANDLER"
        IN
        (entered \/ threw \/ noHandler) => UNCHANGED <<roomcount, rooms, roomSubs, listings>>

\* C18: a failed handleCreateRoom has changed nothing
C18_FailedCreateChangesNothing == [][C18_Step]_vars

\* onCreate threw on a process that owns another room
C18_Witness ==
    \E c \in CallIds :
        /\ calls[c].pc = "failed"
        /\ calls[c].err = "ONCREATE"
        /\ \E id \in RoomIds : room[id].phase = "failed" /\ room[id].owner = calls[c].proc
        /\ \E id \in RoomIds : room[id].phase = "live"

(* C19: when a live room that was locked is unlocked, after any number of  *)
(* lock/unlock cycles, the room is in its owner's table, the owner is      *)
(* subscribed on $<roomId>, and the room's listing is not locked; this     *)
(* stays so while the room is live and unlocked.                           *)
Reachable(id) ==
    /\ id \in rooms[room[id].owner]
    /\ id \in roomSubs[room[id].owner]
    /\ id \in DOMAIN listings => ~listings[id].locked

C19_State ==
    \A id \in RoomIds : (room[id].phase = "live" /\ ~room[id].locked) => Reachable(id)

C19_Step ==
    \A id \in RoomIds :
        (room[id].phase = "live" /\ room[id].locked /\ ~room'[id].locked) =>
            /\ id \in rooms'[room[id].owner]
            /\ id \in roomSubs'[room[id].owner]
            /\ id \in DOMAIN listings' => ~listings'[id].locked

\* C19: an unlocked room is in the table, subscribed, and listed as unlocked
C19_UnlockedRoomReachable == []C19_State /\ [][C19_Step]_vars

\* a room that refused a seat while locked is unlocked again, listed and reachable
C19_Witness ==
    \E c \in CallIds :
        LET id == calls[c].room IN
        /\ calls[c].pc = "ipcSeat"
        /\ calls[c].seatMsg = "no"
        /\ room[id].phase = "live"
        /\ ~room[id].locked
        /\ Cardinality(room[id].seats) < MaxClients
        /\ id \in DOMAIN listings
        /\ Reachable(id)

(* C20: in every state a roomId is in the room table of at most one        *)
(* process, and the listing of a room that is in a table names that        *)
(* process as processId; also when a remote create request timed out and   *)
(* both the target and the requester created a room.                       *)
C20_OneOwner ==
    \A id \in RoomIds : \A p \in Procs :
        id \in rooms[p] =>
            /\ \A q \in Procs : id \in rooms[q] => q = p
            /\ room[id].owner = p
            /\ id \in DOMAIN listings => listings[id].processId = p

\* the requester gave up on the target and created a room, and so did the target
C20_Witness ==
    \E c \in CallIds : \E i, j \in RoomIds :
        /\ calls[c].fallback
        /\ i # j
        /\ i \in rooms[calls[c].proc]
        /\ j \in rooms[calls[c].target]
        /\ calls[c].target # calls[c].proc
        /\ {i, j} \subseteq DOMAIN listings

(* C11: joinById with options.sessionId makes no reservation and keeps the *)
(* sessionId: it returns {room, sessionId} exactly when hasReservedSeat    *)
(* answered true, whatever the listing's locked flag, and fails with       *)
(* ERR_MATCHMAKE_EXPIRED when it answered false.                           *)
C11_State ==
    \A c \in CallIds :
        (calls[c].op = "joinById" /\ calls[c].rejoin) =>
            /\ calls[c].pc \notin {"reserve", "ipcSeat"}
            /\ calls[c].sid # NoSid

C11_Step ==
    \A c \in CallIds :
        LET cl == calls[c]
            dl == calls'[c]
        IN
        (cl.op = "joinById" /\ cl.rejoin /\ dl # cl) =>
            /\ room' = room
            /\ dl.sid = cl.sid /\ dl.room = cl.room
            /\ (cl.pc = "byId" /\ cl.room \in DOMAIN listings) =>
                  IF cl.room \in rooms[cl.proc]
                  THEN IF HasReservedSeat(room[cl.room], cl.sid)
                       THEN dl.pc = "done"
                       ELSE dl.pc = "failed" /\ dl.err = "EXPIRED"
                  ELSE dl.pc = "ipcHas"
            /\ (cl.pc = "ipcHas" /\ cl.seatMsg = "queued" /\ dl.pc = "ipcHas") =>
                  dl.seatMsg = IF HasReservedSeat(room[cl.room], cl.sid) THEN "yes" ELSE "no"
            /\ (cl.pc = "ipcHas" /\ dl.pc = "done") => cl.seatMsg = "yes"
            /\ (cl.pc = "ipcHas" /\ dl.pc = "failed" /\ dl.err = "EXPIRED") => cl.seatMsg = "no"

\* C11: a reconnection returns exactly for a reserved seat and reserves nothing
C11_RejoinReservesNothing == []C11_State /\ [][C11_Step]_vars

\* a reconnection through the room's owner, another process, returned for a locked room
C11_Witness ==
    \E c \in CallIds :
        /\ calls[c].op = "joinById"
        /\ calls[c].rejoin
        /\ calls[c].pc = "done"
        /\ calls[c].room \notin rooms[calls[c].proc]
        /\ calls[c].room \in DOMAIN listings
        /\ listings[calls[c].room].locked
        /\ calls[c].sid \in room[calls[c].room].seats

(* C12: joinById without options.sessionId fails with                      *)
(* ERR_MATCHMAKE_INVALID_ROOM_ID when the driver has no listing for the    *)
(* roomId or the listing is locked, asking no room for a seat and changing *)
(* no state; it goes on to reserveSeatFor only for a listing that is found *)
(* and not locked.                                                         *)
C12_Step ==
    \A c \in CallIds :
        LET cl == calls[c]
            dl == calls'[c]
        IN
        (cl.op = "joinById" /\ ~cl.rejoin /\ cl.pc = "byId" /\ dl.pc # "byId") =>
            IF cl.room \notin DOMAIN listings \/ listings[cl.room].locked
            THEN /\ dl = [cl EXCEPT !.pc = "failed", !.err = "INVALID_ROOM_ID"]
                 /\ UNCHANGED <<handlers, rooms, shuttingDown, procSub, roomSubs, roomcount,
                                keys, listings, room, tasks, nextRoom, shutdown, nodes, disc>>
            ELSE dl = [cl EXCEPT !.pc = "reserve"]

\* C12: no listing or a locked one ends joinById with INVALID_ROOM_ID and no effect
C12_NoListingOrLocked == [][C12_Step]_vars

\* a joinById refused for a listing that is there and locked
C12_Witness ==
    \E c \in CallIds :
        /\ calls[c].op = "joinById"
        /\ ~calls[c].rejoin
        /\ calls[c].pc = "failed"
        /\ calls[c].err = "INVALID_ROOM_ID"
        /\ calls[c].room \in DOMAIN listings
        /\ listings[calls[c].room].locked
        /\ ~RoomAccepts(room[calls[c].room])

(* C17: after defineRoomType(name) on a process, every listing of that     *)
(* name that was in the driver then and whose room no process serves is    *)
(* eventually removed from the driver, the key c:<name> is deleted, and    *)
(* the cleanup ends with the handler registered.                           *)
Unserved(p, id) == id \notin rooms[p] /\ \A q \in Procs : id \notin roomSubs[q]

Defined(p, n) == cleanup[p].pc = "find" /\ cleanup[p].name = n /\ n \in handlers[p]

C17_StaleListingsGo ==
    \A p \in Procs, n \in Names :
        /\ \A id \in RoomIds \cup {GhostId} :
              (Defined(p, n) /\ id \in DOMAIN listings /\ listings[id].name = n
                  /\ Unserved(p, id))
                 ~> (id \notin DOMAIN listings)
        /\ Defined(p, n) ~> (getHandlerConcurrencyKey(n) \notin DOMAIN keys)
        /\ Defined(p, n) ~> (cleanup[p] = NoCleanup /\ n \in handlers[p])

\* the listing a dead process left is gone after the cleanup, the room made since is listed
C17_Witness ==
    /\ regOps = 1
    /\ \A p \in Procs : cleanup[p] = NoCleanup
    /\ GhostId \notin DOMAIN listings
    /\ \E id \in RoomIds : id \in DOMAIN listings

(* C21: the nodes set holds a node's formatted address exactly from its    *)
(* registerNode until its unregisterNode, the set is updated before the    *)
(* message is published, and the channel's subscriber, reading the set     *)
(* when it receives a message, finds the change there.                     *)
InNodes(p) == getNodeAddress(p) \in nodes

Published == {disc.channel[i] : i \in 1..Len(disc.channel)} \cup {disc.received}

\* the set holds the addresses of the nodes registered and not unregistered
C21_SetFollowsNodes ==
    /\ nodes = {getNodeAddress(p) : p \in {q \in Procs : disc.reg[q] # "idle" /\ disc.unreg[q] = "idle"}}
    /\ \A p \in Procs : disc.unreg[p] # "idle" => ~InNodes(p)

\* a message is published after the set was updated
C21_SetBeforeMessage ==
    \A p \in Procs :
        /\ <<"add", getNodeAddress(p)>> \in Published => disc.reg[p] = "done"
        /\ <<"remove", getNodeAddress(p)>> \in Published => disc.unreg[p] = "done"
        /\ disc.reg[p] = "added" => (InNodes(p) \/ disc.unreg[p] # "idle")
        /\ disc.unreg[p] = "removed" => ~InNodes(p)

\* C21 as stated: the subscriber finds the change of every message it receives
C21_SubscriberSeesChange ==
    /\ C21_SetFollowsNodes
    /\ C21_SetBeforeMessage
    /\ \A p \in Procs :
          /\ disc.received = <<"add", getNodeAddress(p)>> => getNodeAddress(p) \in disc.read
          /\ disc.received = <<"remove", getNodeAddress(p)>> => getNodeAddress(p) \notin disc.read

\* C21: the subscriber finds the change unless the node has unregistered since
C21_SubscriberSeesChangeUnlessUndone ==
    /\ C21_SetFollowsNodes
    /\ C21_SetBeforeMessage
    /\ \A p \in Procs :
          /\ disc.received = <<"add", getNodeAddress(p)>> =>
                (getNodeAddress(p) \in disc.read \/ disc.unreg[p] # "idle")
          /\ disc.received = <<"remove", getNodeAddress(p)>> => getNodeAddress(p) \notin disc.read

\* a node registered and unregistered, the other still registered, and the
\* subscriber read the set at the first node's remove message
C21_Witness ==
    \E p \in Procs :
        /\ disc.reg[p] = "done" /\ disc.unreg[p] = "done"
        /\ disc.received = <<"remove", getNodeAddress(p)>>
        /\ disc.read = nodes
        /\ \E q \in Procs : q # p /\ nodes = {getNodeAddress(q)}

(* C22: a joiner whose presence.incr(c:<name>) returned k waits             *)
(* min((k-1)*100, REMOTE_ROOM_SHORT_TIMEOUT) ms before its query: 0 ms when *)
(* it is the only joiner of the name, never a negative time and never more  *)
(* than REMOTE_ROOM_SHORT_TIMEOUT.                                          *)
SoleJoiner(c) ==
    \A d \in CallIds \ {c} : ~(calls[d].pc = "gate" /\ calls[d].name = calls[c].name)

C22_GateDelay ==
    \A c \in CallIds :
        calls[c].pc = "gate" =>
            LET delay == concurrencyTimeout(calls[c].k) IN
            /\ delay = Min((calls[c].k - 1) * 100, REMOTE_ROOM_SHORT_TIMEOUT)
            /\ 0 <= delay
            /\ delay <= REMOTE_ROOM_SHORT_TIMEOUT
            /\ SoleJoiner(c) => delay = 0

(* C23: remoteRoomCall is answered by the local room object, publishing no *)
(* request, exactly when the roomId is in the caller's room table;         *)
(* otherwise it publishes one request on $<roomId>, and when no reply came *)
(* within the timeout it was given it fails with ERR_MATCHMAKE_UNHANDLED.  *)
C23_State ==
    \A c \in CallIds :
        calls[c].op = "remoteRoomCall" =>
            /\ calls[c].requests <= 1
            /\ calls[c].pc = "ipcCall" => calls[c].requests = 1
            /\ calls[c].pc = "failed" => calls[c].err = "UNHANDLED" /\ calls[c].requests = 1
            /\ (calls[c].pc = "done" /\ calls[c].requests = 1) =>
                  calls[c].elapsed < calls[c].rejectionTimeout

C23_Step ==
    \A c \in CallIds :
        (calls[c].pc = "rrc" /\ calls'[c].pc # "rrc") =>
            IF calls[c].room \in rooms[calls[c].proc]
            THEN calls'[c].pc = "done" /\ calls'[c].requests = 0
            ELSE calls'[c].pc = "ipcCall" /\ calls'[c].requests = 1

C23_LocalOrOneRequest == []C23_State /\ [][C23_Step]_vars

(* C24: a POST matchmake request for a method that is not exposed calls no *)
(* matchmaker operation and is answered with ERR_MATCHMAKE_UNHANDLED; the  *)
(* error an exposed method throws is answered with its code, or with       *)
(* ERR_MATCHMAKE_UNHANDLED when it carries none, and is always answered.   *)
C24_Step ==
    \A c \in CallIds :
        LET cl == calls[c]
            dl == calls'[c]
        IN
        /\ (cl.pc = "idle" /\ dl.http /\ dl.method \notin exposedMethods) =>
              /\ dl.op = "none"
              /\ dl.response = "UNHANDLED"
              /\ UNCHANGED <<handlers, rooms, shuttingDown, procSub, roomSubs, roomcount,
                             keys, listings, room, tasks, nextRoom, regOps, cleanup,
                             shutdown, nodes, disc>>
        /\ (cl.pc = "idle" /\ dl.http /\ dl.method \in exposedMethods) =>
              dl.op = dl.method /\ dl.response = "none"
        /\ (cl.http /\ cl.response = "none" /\ dl.response # "none") =>
              /\ cl.pc \in {"done", "failed"}
              /\ cl.pc = "done" => dl.response = "ok"
              /\ cl.pc = "failed" =>
                    dl.response = IF CodeOf(cl.err) = "none" THEN "UNHANDLED"
                                  ELSE CodeOf(cl.err)

Listed(id) ==
    /\ id \in DOMAIN listings
    /\ listings[id].processId \in Procs
    /\ ~shuttingDown[listings[id].processId]
    /\ room[id].phase \notin {"gone", "none"}

C25_State ==
    \A id \in RoomIds :
        Listed(id) =>
            /\ id \in rooms[listings[id].processId]
            /\ id \in roomSubs[listings[id].processId]

C25_Step ==
    \A id \in RoomIds :
        (id \notin DOMAIN listings /\ id \in DOMAIN listings' /\ room[id].phase # "gone") =>
            /\ id \in roomSubs[listings'[id].processId]
            /\ id \in rooms[listings'[id].processId]

\* a _reserveSeat request published for such a room reaches its owner
C25_Delivered ==
    \A c \in CallIds :
        (calls[c].pc = "reserve" /\ calls'[c].pc = "ipcSeat" /\ Listed(calls[c].room)) =>
            calls'[c].seatMsg = "queued"

C25_ListedRoomIsReachable == []C25_State /\ [][C25_Step /\ C25_Delivered]_vars

\* a request for a seat is on its way to the owner of a listed room, another
\* process than the caller's
C25_Witness ==
    \E c \in CallIds :
        /\ calls[c].pc = "ipcSeat"
        /\ calls[c].seatMsg = "queued"
        /\ Listed(calls[c].room)
        /\ listings[calls[c].room].processId # calls[c].proc
        /\ calls[c].room \in roomSubs[listings[calls[c].room].processId]

(* C26: once gracefullyShutdown has started on a process, the process      *)
(* makes no new room: its room table only shrinks, no new listing with its *)
(* processId is saved, and nothing re-creates the roomcount field that the *)
(* shutdown deleted.                                                       *)
C26_Step ==
    \A p \in Procs :
        shuttingDown[p] =>
            /\ rooms'[p] \subseteq rooms[p]
            /\ \A id \in DOMAIN listings' :
                  listings'[id].processId = p => id \in DOMAIN listings
            /\ p \notin DOMAIN roomcount => p \notin DOMAIN roomcount'

C26_NoRoomAfterShutdown == [][C26_Step]_vars

(* C27, as claimed: cleanupStaleRooms removes a listing only if no live    *)
(* process has the room in its table; the listing of a room still hosted,  *)
(* locally or on another live process subscribed on $<roomId>, is never    *)
(* removed by the cleanup.                                                 *)
RemovedByCleanup(p, id) ==
    /\ cleanup[p].pc = "probe"
    /\ cleanup'[p] # cleanup[p]
    /\ id \in DOMAIN listings
    /\ id \notin DOMAIN listings'

Hosted(q, id) == ~shuttingDown[q] /\ id \in rooms[q] /\ id \in roomSubs[q]

C27_HostedStep ==
    \A p \in Procs, id \in RoomIds :
        RemovedByCleanup(p, id) => \A q \in Procs : ~Hosted(q, id)

C27_CleanupSparesHostedRooms == [][C27_HostedStep]_vars

(* C27, amended: cleanupStaleRooms never removes the listing of a room in  *)
(* the table of the process that runs it; the listing of a room hosted by  *)
(* another process goes when the probe fails, be the host alive or not.    *)
C27_LocalStep ==
    \A p \in Procs, id \in RoomIds :
        RemovedByCleanup(p, id) => (id \notin rooms[p] /\ id \in cleanup[p].todo)

C27_CleanupSparesLocalRooms == [][C27_LocalStep]_vars

\* the cleanup has removed the listing of a room that a live process hosts
C27_Witness ==
    \E id \in RoomIds :
        /\ room[id].phase = "live"
        /\ Hosted(room[id].owner, id)
        /\ id \notin DOMAIN listings
        /\ regOps = 1

====
